---- MODULE Spec2Model ----
(***************************************************************************)
(* Model of docterwolf/samsam: divar_automation.py (the Playwright session *)
(* and workflow engine) and the parts of bot.py that call it.              *)
(*                                                                         *)
(* Every coroutine is cut at its awaits: one action per awaited browser    *)
(* call together with the synchronous code that follows it.  A task is one *)
(* invocation in flight; pc[t] is its stack of labels (innermost first),   *)
(* rv[t] the value or exception the last finished callee handed back.      *)
(* The remote site is the environment: what a page shows after a           *)
(* navigation or a click is chosen by the site, never by the program.      *)
(***************************************************************************)
EXTENDS Integers, Sequences, FiniteSets, TLC

VARIABLES
    stateFile,   \* the file at DIVAR_STATE_PATH: "absent", "tiny" (<= 10 bytes), "valid"
    launches,    \* Chromium processes launched so far, none of which is ever
                 \* closed (saturates at MaxEngines)
    context,     \* _context: 0 is None, otherwise a context id
    ctxs,        \* browser side: context id -> [st, auth]
    pages,       \* browser side: page id -> [st, ctx, view, kind, owner]; owner is
                 \* the chat id _get_page made the page for (0 for a scratch page)
    chat_ctx,    \* _chat_ctx[chat_id]["page"]: 0 is missing/None, otherwise a page id
    chat_state,  \* bot.py chat_state[chat_id]["step"]: "none", "phone", "otp"
    pc,          \* task -> stack of labels, <<>> when the task is idle
    loc,         \* task -> local variables of the invocation in flight
    rv,          \* task -> result of the last return: [k, v, msg, stage, dump]
    fx,          \* task -> browser/file effects of the invocation so far (a set)
    prev         \* the invocation that finished last, until another one that is
                 \* not has_valid_session starts

vars == <<stateFile, launches, context, ctxs, pages, chat_ctx,
          chat_state, pc, loc, rv, fx, prev>>

browserVars == <<launches, context, ctxs, pages, chat_ctx>>

----------------------------------------------------------------------------
(* Bounds of the model *)

MaxEngines == 2      \* engine/launch counters saturate here
MaxCats == 2         \* the live category list offers 1..MaxCats items
MaxPages == 3        \* page ids (a closed, unreferenced page frees its id)
MaxCtx == 2          \* context ids (a closed context frees its id)

Chats == {1, 2}
Tasks == {1, 2}
PageIds == 1 .. MaxPages
CtxIds == 1 .. MaxCtx

Min(a, b) == IF a < b THEN a ELSE b

----------------------------------------------------------------------------
(* Texts the callers send.  A text is a sequence of characters; "P0" and   *)
(* "P9" stand for the Persian digits U+06F0 and U+06F9, which Python's \D  *)
(* does not strip.                                                         *)

AsciiDigits == {"0", "1", "2", "3", "4", "5", "6", "7", "8", "9"}
UnicodeDigits == AsciiDigits \cup {"P0", "P9"}

\* re.sub(r"\D+", "", s or ""): keeps the decimal digits, drops the rest
_normalize_digits(s) == SelectSeq(s, LAMBDA ch : ch \in UnicodeDigits)

StartsWith(s, p) == Len(s) >= Len(p) /\ SubSeq(s, 1, Len(p)) = p

\* if digits.startswith("98"): digits = "0" + digits[2:]
RewritePrefix(d) ==
    IF StartsWith(d, <<"9", "8">>) THEN <<"0">> \o SubSeq(d, 3, Len(d)) ELSE d

\* code[:6]
FirstSix(d) == SubSeq(d, 1, Min(6, Len(d)))

\* bot.py: not phone.startswith("09") or len(phone) != 11  (negated)
PhoneInvalidMut(d) == ~StartsWith(d, <<"0", "9">>)
PhoneInvalid(d) == ~StartsWith(d, <<"0", "9">>) \/ Len(d) # 11

\* bot.py: len(code) != 6
CodeInvalidMut(d) == Len(d) = 0
CodeInvalid(d) == Len(d) # 6

PhoneTexts ==
    { <<"0","9","3","5","1","2","3","4","5","6","7">>,
      <<"+","9","8"," ","9","3","5","1","2","3","4","5","6","7">>,
      <<"0","9","3","5","-","1","2","3">>,
      <<"P0","P9","3","5","1","2","3","4","5","6","7">> }

CodeTexts ==
    { <<"1","2","3","4","5","6">>,
      <<"1","2","3","-","4","5","6","7">>,
      <<"1","2","3","4","5">> }

----------------------------------------------------------------------------
(* The persisted state file *)

\* os.path.exists(p) and os.path.getsize(p) > 10
StateExistsMut(f) == f # "absent"
StateExists(f) == f = "valid"

_state_exists == StateExists(stateFile)

----------------------------------------------------------------------------
(* Pages as the site renders them.  The model keeps of a page's DOM only   *)
(* which login prompt it shows: the phone field, the code field or        *)
(* neither.  Every other element is asked of the site when the program    *)
(* looks for it: the markup is not under the program's control and may    *)
(* differ from one look to the next.                                      *)

Views == {"phone", "otp", "other"}

FreePage == [st |-> "free", ctx |-> 0, view |-> "other", kind |-> "none", owner |-> 0]
ClosedPage == [st |-> "closed", ctx |-> 0, view |-> "other", kind |-> "none", owner |-> 0]
OpenPage(c, k) == [st |-> "open", ctx |-> c, view |-> "other", kind |-> k, owner |-> 0]
FreeCtx == [st |-> "free", auth |-> FALSE]

\* page.locator(PHONE_INPUT).count() > 0, page.locator(OTP_INPUT).count() > 0
HasPhone(p) == pages[p].view = "phone"
HasOtp(p) == pages[p].view = "otp"

\* page.is_closed()
\* a page handle that never reports closed
is_closedMut(p) == FALSE

is_closed(p) == pages[p].st # "open"

NoRv == [k |-> "none", v |-> "none", msg |-> "", stage |-> "", dump |-> ""]
Val(v) == [NoRv EXCEPT !.k = "ret", !.v = v]
Exc(kind, msg) == [NoRv EXCEPT !.k = "exc", !.v = kind, !.msg = msg]

\* op: the operation of divar_automation.py that was called; via: who called it;
\* saw: what the last /new navigation of _is_logged_in or start_login showed
\* ("form": the title field and no phone field); unset: the location control
\* was still in its unset state at the location check; count, clicked:
\* the live category count and the category index clicked; stages: the stages
\* entered so far; res: the exception a failing stage caught; out: the result
\* a bot handler received
NoLoc == [op |-> "none", via |-> "none", chat |-> 0, page |-> 0, probe |-> 0,
          scratch |-> 0, digits |-> <<>>, idx |-> 0, imgs |-> FALSE, step |-> "",
          ok |-> FALSE, saw |-> "", count |-> -1, clicked |-> -1, stages |-> <<>>,
          res |-> NoRv, out |-> NoRv,
          unset |-> FALSE]

NoPrev == [op |-> "none", v |-> "none", saved |-> FALSE]

----------------------------------------------------------------------------
Init ==
    /\ stateFile \in {"absent", "tiny", "valid"}
    /\ launches = 0
    /\ context = 0
    /\ ctxs = [c \in CtxIds |-> FreeCtx]
    /\ pages = [p \in PageIds |-> FreePage]
    /\ chat_ctx = [c \in Chats |-> 0]
    /\ chat_state = [c \in Chats |-> "none"]
    /\ pc = [t \in Tasks |-> <<>>]
    /\ loc = [t \in Tasks |-> NoLoc]
    /\ rv = [t \in Tasks |-> NoRv]
    /\ fx = [t \in Tasks |-> {}]
    /\ prev = NoPrev

----------------------------------------------------------------------------
(* Control: the label stack of a task *)

At(t, lbl) == pc[t] # <<>> /\ Head(pc[t]) = lbl
Idle(t) == pc[t] = <<>>

Jump(t, lbl) == pc' = [pc EXCEPT ![t] = <<lbl>> \o Tail(@)]
Call(t, callee, cont) == pc' = [pc EXCEPT ![t] = <<callee, cont>> \o Tail(@)]
Pop(t) == pc' = [pc EXCEPT ![t] = Tail(@)]
Ret(t, r) == Pop(t) /\ rv' = [rv EXCEPT ![t] = r]
Effect(t, e) == fx' = [fx EXCEPT ![t] = @ \cup {e}]
Set(t, f) == loc' = [loc EXCEPT ![t] = f]

Raised(t) == rv[t].k = "exc"

\* ids are handed out lowest free first
FreePages == {p \in PageIds : pages[p].st = "free"}
FreeCtxs == {c \in CtxIds : ctxs[c].st = "free"}
NewPageId == CHOOSE p \in FreePages : \A q \in FreePages : p <= q
NewCtxId == CHOOSE c \in FreeCtxs : \A d \in FreeCtxs : c <= d

\* a closed page nobody refers to any more gives its id back
Collect(pgs, cc, lc) ==
    [p \in PageIds |->
        IF /\ pgs[p].st = "closed"
           /\ \A c \in Chats : cc[c] # p
           /\ \A t \in Tasks : p \notin {lc[t].page, lc[t].probe, lc[t].scratch}
        THEN FreePage ELSE pgs[p]]

PageAlive(p) == p \in PageIds /\ pages[p].st = "open"
CtxAlive(c) == c \in CtxIds /\ ctxs[c].st = "open"
AuthOf(p) == ctxs[pages[p].ctx].auth

Bump(n) == Min(n + 1, MaxEngines)


----------------------------------------------------------------------------
(* The remote site.  What /new shows depends on the cookies of the page's  *)
(* context; the site may also drop a session at any navigation.            *)

\* what the entry route /new may render: [view, auth after the navigation]
GotoNewOutcomes(auth) ==
    IF auth
    THEN {[view |-> "other", auth |-> TRUE], [view |-> "phone", auth |-> FALSE]}
    ELSE {[view |-> v, auth |-> FALSE] : v \in Views}

Show(p, v) == [pages EXCEPT ![p].view = v]

----------------------------------------------------------------------------
(* _ensure_browser: entered at "eb" *)

\* if _context: return; _pw = await async_playwright().start()
eb(t) ==
    /\ At(t, "eb")
    /\ IF context # 0
       THEN Ret(t, Val("none")) /\ UNCHANGED fx
       ELSE Jump(t, "eb_launch") /\ Effect(t, "pw_start") /\ UNCHANGED rv
    /\ UNCHANGED <<stateFile, launches, context, ctxs, pages, chat_ctx, chat_state,
                   loc, prev>>

\* _browser = await _pw.chromium.launch(...): the executable may be missing
eb_launch(t) ==
    /\ At(t, "eb_launch")
    /\ Effect(t, "launch")
    /\ \E ok \in BOOLEAN :
         IF ok
         THEN Jump(t, "eb_ctx") /\ launches' = Bump(launches) /\ UNCHANGED rv
         ELSE Ret(t, Exc("Error", "launch")) /\ UNCHANGED launches
    /\ UNCHANGED <<stateFile, context, ctxs, pages, chat_ctx, chat_state, loc, prev>>

\* storage_state = path if _state_exists() else None;
\* _context = await _browser.new_context(storage_state=storage_state, ...)
eb_ctx(t) ==
    /\ At(t, "eb_ctx")
    /\ FreeCtxs # {}
    /\ ctxs' = [ctxs EXCEPT ![NewCtxId] = [st |-> "open", auth |-> _state_exists]]
    /\ context' = NewCtxId
    /\ Jump(t, "eb_cookie")
    /\ Effect(t, "new_context")
    /\ UNCHANGED <<stateFile, launches, pages, chat_ctx, chat_state, loc, rv, prev>>

\* try: await _context.add_cookies([city]) except Exception: log
eb_cookie(t) ==
    /\ At(t, "eb_cookie")
    /\ Ret(t, Val("none"))
    /\ UNCHANGED <<stateFile, launches, context, ctxs, pages, chat_ctx, chat_state,
                   loc, fx, prev>>

----------------------------------------------------------------------------
(* _get_page(chat_id): entered at "eb" with "gp" below it *)

\* ctx = _get_ctx(chat_id); if ctx.get("page") and not ctx["page"].is_closed(): return it
gp(t) ==
    /\ At(t, "gp")
    /\ LET c == loc[t].chat
           p == chat_ctx[c]
       IN IF Raised(t)
          THEN Pop(t) /\ UNCHANGED <<loc, rv>>
          ELSE IF p # 0 /\ ~is_closed(p)
               THEN Set(t, [loc[t] EXCEPT !.page = p]) /\ Ret(t, Val("page"))
               ELSE Jump(t, "gp_new") /\ UNCHANGED <<loc, rv>>
    /\ UNCHANGED <<stateFile, launches, context, ctxs, pages, chat_ctx, chat_state,
                   fx, prev>>

\* page = await _context.new_page(); ctx["page"] = page; return page
gp_new(t) ==
    /\ At(t, "gp_new")
    /\ IF ~CtxAlive(context)
       THEN /\ Ret(t, Exc("Error", "new_page"))
            /\ UNCHANGED <<pages, chat_ctx, loc, fx>>
       ELSE /\ LET c == loc[t].chat
                   freed == Collect(pages, [chat_ctx EXCEPT ![c] = 0], loc)
                   free == {p \in PageIds : freed[p].st = "free"}
                   n == CHOOSE p \in free : \A q \in free : p <= q
               IN /\ free # {}
                  /\ pages' = [freed EXCEPT ![n] = [OpenPage(context, "chat")
                                                      EXCEPT !.owner = c]]
                  /\ chat_ctx' = [chat_ctx EXCEPT ![c] = n]
                  /\ Set(t, [loc[t] EXCEPT !.page = n])
                  /\ fx' = [fx EXCEPT ![t] = @ \cup {"new_page"} \cup
                               (IF chat_ctx[c] # 0 THEN {"replace_closed"} ELSE {})]
            /\ Ret(t, Val("page"))
    /\ UNCHANGED <<stateFile, launches, context, ctxs, chat_state, prev>>

----------------------------------------------------------------------------
(* _save_state: entered at "sv" *)

\* _save_state that returns without writing
svMut(t) ==
    /\ At(t, "sv")
    /\ Ret(t, Val("none"))
    /\ UNCHANGED <<stateFile, launches, context, ctxs, pages, chat_ctx, chat_state,
                   loc, fx, prev>>

\* if not _context: return; try: await _context.storage_state(path=...)
\* (on a context that is already closed the call fails at once and is logged)
sv(t) ==
    /\ At(t, "sv")
    /\ IF context = 0
       THEN Ret(t, Val("none")) /\ UNCHANGED fx
       ELSE IF CtxAlive(context)
            THEN Jump(t, "sv_write") /\ UNCHANGED <<rv, fx>>
            ELSE Ret(t, Val("none")) /\ Effect(t, "save_failed")
    /\ UNCHANGED <<stateFile, launches, context, ctxs, pages, chat_ctx, chat_state,
                   loc, prev>>

\* the snapshot is written to DIVAR_STATE_PATH; an unwritable path is only logged
WriteOutcomes == BOOLEAN

\* a write whose failure is raised instead of logged
sv_writeMut(t) ==
    /\ At(t, "sv_write")
    /\ \E ok \in WriteOutcomes :
         IF ok
         THEN stateFile' = "valid" /\ Effect(t, "save") /\ Ret(t, Val("none"))
         ELSE /\ UNCHANGED stateFile
              /\ Effect(t, "save_failed")
              /\ Ret(t, Exc("OSError", "write"))
    /\ UNCHANGED <<launches, context, ctxs, pages, chat_ctx, chat_state, loc, prev>>

sv_write(t) ==
    /\ At(t, "sv_write")
    /\ \E ok \in WriteOutcomes :
         IF ok
         THEN stateFile' = "valid" /\ Effect(t, "save")
         ELSE UNCHANGED stateFile /\ Effect(t, "save_failed")
    /\ Ret(t, Val("none"))
    /\ UNCHANGED <<launches, context, ctxs, pages, chat_ctx, chat_state, loc, prev>>

----------------------------------------------------------------------------
(* debug_dump(page, step): entered at "dd" with loc.probe the page *)

\* a dump whose failure is raised instead of turned into (None, None)
ddMut(t) ==
    /\ At(t, "dd")
    /\ \E ok \in BOOLEAN :
         IF ok /\ PageAlive(loc[t].probe)
         THEN Ret(t, [Val("dump") EXCEPT !.dump = "paths", !.stage = loc[t].step])
         ELSE Ret(t, Exc("Error", "screenshot"))
    /\ Effect(t, "dump")
    /\ UNCHANGED <<stateFile, launches, context, ctxs, pages, chat_ctx, chat_state,
                   loc, prev>>

\* screenshot + content + write; any failure returns (None, None)
dd(t) ==
    /\ At(t, "dd")
    /\ \E ok \in BOOLEAN :
         Ret(t, [Val("dump") EXCEPT
                   !.dump = IF ok /\ PageAlive(loc[t].probe) THEN "paths" ELSE "none",
                   !.stage = loc[t].step])
    /\ Effect(t, "dump")
    /\ UNCHANGED <<stateFile, launches, context, ctxs, pages, chat_ctx, chat_state,
                   loc, prev>>

----------------------------------------------------------------------------
(* _is_logged_in(page): entered at "il" with loc.probe the page *)

\* await page.goto(DIVAR_NEW_URL, ...); await page.wait_for_timeout(1200)
il(t) ==
    /\ At(t, "il")
    /\ LET p == loc[t].probe
       IN IF ~PageAlive(p)
          THEN /\ Ret(t, Exc("Error", "goto"))
               /\ Set(t, [loc[t] EXCEPT !.saw = "failed"])
               /\ UNCHANGED <<pages, ctxs, fx>>
          ELSE /\ Effect(t, "goto")
               /\ \E nav \in BOOLEAN :
                    IF ~nav
                    THEN /\ Ret(t, Exc("Error", "goto"))
                         /\ Set(t, [loc[t] EXCEPT !.saw = "failed"])
                         /\ UNCHANGED <<pages, ctxs>>
                    ELSE \E o \in GotoNewOutcomes(AuthOf(p)) :
                           /\ pages' = Show(p, o.view)
                           /\ ctxs' = [ctxs EXCEPT ![pages[p].ctx].auth = o.auth]
                           /\ Set(t, [loc[t] EXCEPT !.saw = o.view])
                           /\ Jump(t, "il_probe")
                           /\ UNCHANGED rv
    /\ UNCHANGED <<stateFile, launches, context, chat_ctx, chat_state, prev>>

\* a phone field or a code field means not logged in
LoggedInViewMut(v) == v # "phone"
LoggedInView(v) == v # "phone" /\ v # "otp"

il_probe(t) ==
    /\ At(t, "il_probe")
    /\ LET p == loc[t].probe
       IN IF ~PageAlive(p)
          THEN Ret(t, Exc("Error", "count"))
          ELSE Ret(t, Val(IF LoggedInView(pages[p].view) THEN "true" ELSE "false"))
    /\ UNCHANGED <<stateFile, launches, context, ctxs, pages, chat_ctx, chat_state,
                   loc, fx, prev>>

----------------------------------------------------------------------------
(* has_valid_session(): entered at "hvs" *)

\* if not _state_exists(): return False; await _ensure_browser()
hvs(t) ==
    /\ At(t, "hvs")
    /\ IF ~_state_exists
       THEN Ret(t, Val("false"))
       ELSE Call(t, "eb", "hvs_page") /\ UNCHANGED rv
    /\ UNCHANGED <<stateFile, launches, context, ctxs, pages, chat_ctx, chat_state,
                   loc, fx, prev>>

\* a session check without the finally clause that closes the scratch page
hvs_pageMut(t) ==
    /\ At(t, "hvs_page")
    /\ IF Raised(t)
       THEN Pop(t) /\ UNCHANGED <<rv, pages, loc, fx>>
       ELSE IF ~CtxAlive(context)
            THEN Ret(t, Exc("Error", "new_page")) /\ UNCHANGED <<pages, loc, fx>>
            ELSE /\ FreePages # {}
                 /\ pages' = [pages EXCEPT ![NewPageId] = OpenPage(context, "scratch")]
                 /\ Set(t, [loc[t] EXCEPT !.scratch = NewPageId, !.probe = NewPageId])
                 /\ Jump(t, "il")
                 /\ Effect(t, "new_page")
                 /\ UNCHANGED rv
    /\ UNCHANGED <<stateFile, launches, context, ctxs, chat_ctx, chat_state, prev>>

\* page = await _context.new_page()   (outside the try)
hvs_page(t) ==
    /\ At(t, "hvs_page")
    /\ IF Raised(t)
       THEN Pop(t) /\ UNCHANGED <<rv, pages, loc, fx>>
       ELSE IF ~CtxAlive(context)
            THEN Ret(t, Exc("Error", "new_page")) /\ UNCHANGED <<pages, loc, fx>>
            ELSE /\ FreePages # {}
                 /\ pages' = [pages EXCEPT ![NewPageId] = OpenPage(context, "scratch")]
                 /\ Set(t, [loc[t] EXCEPT !.scratch = NewPageId, !.probe = NewPageId])
                 /\ Call(t, "il", "hvs_close")
                 /\ Effect(t, "new_page")
                 /\ UNCHANGED rv
    /\ UNCHANGED <<stateFile, launches, context, ctxs, chat_ctx, chat_state, prev>>

\* a session check that rewrites the state file when it found the session valid
hvs_closeMut(t) ==
    /\ At(t, "hvs_close")
    /\ LET s == loc[t].scratch
           l2 == [loc EXCEPT ![t].scratch = 0, ![t].probe = 0]
           closed == [pages EXCEPT ![s] = IF @.st = "open" THEN ClosedPage ELSE @]
       IN /\ pages' = Collect(closed, chat_ctx, l2)
          /\ loc' = l2
    /\ Ret(t, IF Raised(t) THEN Val("false") ELSE rv[t])
    /\ IF ~Raised(t) /\ rv[t].v = "true"
       THEN stateFile' = "valid" /\ fx' = [fx EXCEPT ![t] = @ \cup {"close_page", "save"}]
       ELSE UNCHANGED stateFile /\ Effect(t, "close_page")
    /\ UNCHANGED <<launches, context, ctxs, chat_ctx, chat_state, prev>>

\* return ok / except Exception: return False / finally: await page.close()
hvs_close(t) ==
    /\ At(t, "hvs_close")
    /\ LET s == loc[t].scratch
           l2 == [loc EXCEPT ![t].scratch = 0, ![t].probe = 0]
           closed == [pages EXCEPT ![s] = IF @.st = "open" THEN ClosedPage ELSE @]
       IN /\ pages' = Collect(closed, chat_ctx, l2)
          /\ loc' = l2
    /\ Ret(t, IF Raised(t) THEN Val("false") ELSE rv[t])
    /\ Effect(t, "close_page")
    /\ UNCHANGED <<stateFile, launches, context, ctxs, chat_ctx, chat_state, prev>>

----------------------------------------------------------------------------
(* start_login(chat_id, phone): entered at "eb" with "gp", "sl" below it *)

\* after the phone number is submitted the site shows the code field, or not
AfterPhoneSubmit == Views

\* a start_login without the check for a code field that is already there
slMut(t) ==
    /\ At(t, "sl")
    /\ LET p == loc[t].page
       IN IF Raised(t)
          THEN Pop(t) /\ UNCHANGED <<rv, pages, ctxs, loc, fx>>
          ELSE IF ~PageAlive(p)
          THEN Ret(t, Exc("Error", "goto")) /\ UNCHANGED <<pages, ctxs, loc, fx>>
          ELSE /\ Effect(t, "goto")
               /\ \E nav \in BOOLEAN :
                    IF ~nav
                    THEN Ret(t, Exc("Error", "goto")) /\ UNCHANGED <<pages, ctxs, loc>>
                    ELSE \E o \in GotoNewOutcomes(AuthOf(p)) : \E title \in BOOLEAN :
                      /\ pages' = Show(p, o.view)
                      /\ ctxs' = [ctxs EXCEPT ![pages[p].ctx].auth = o.auth]
                      /\ (o.view # "other") => ~title
                      /\ IF title /\ o.view # "phone"
                         THEN /\ Ret(t, Val("none"))
                              /\ Set(t, [loc[t] EXCEPT !.saw = "form"])
                         ELSE IF o.view = "phone"
                         THEN /\ Jump(t, "sl_fill")
                              /\ Set(t, [loc[t] EXCEPT !.saw = "phone"])
                              /\ UNCHANGED rv
                         ELSE /\ Call(t, "dd", "sl_raise")
                              /\ Set(t, [loc[t] EXCEPT !.probe = p, !.saw = o.view,
                                                       !.step = "login_unexpected_page"])
                              /\ UNCHANGED rv
    /\ UNCHANGED <<stateFile, launches, context, chat_ctx, chat_state, prev>>

\* await page.goto(DIVAR_NEW_URL); then the three expected page states
sl(t) ==
    /\ At(t, "sl")
    /\ LET p == loc[t].page
       IN IF Raised(t)
          THEN Pop(t) /\ UNCHANGED <<rv, pages, ctxs, loc, fx>>
          ELSE IF ~PageAlive(p)
          THEN Ret(t, Exc("Error", "goto")) /\ UNCHANGED <<pages, ctxs, loc, fx>>
          ELSE /\ Effect(t, "goto")
               /\ \E nav \in BOOLEAN :
                    IF ~nav
                    THEN Ret(t, Exc("Error", "goto")) /\ UNCHANGED <<pages, ctxs, loc>>
                    ELSE \E o \in GotoNewOutcomes(AuthOf(p)) : \E title \in BOOLEAN :
                      /\ pages' = Show(p, o.view)
                      /\ ctxs' = [ctxs EXCEPT ![pages[p].ctx].auth = o.auth]
                      /\ (o.view # "other") => ~title
                      /\ IF title /\ o.view # "phone"
                         THEN /\ Ret(t, Val("none"))
                              /\ Set(t, [loc[t] EXCEPT !.saw = "form"])
                         ELSE IF o.view = "otp"
                         THEN /\ Ret(t, Val("none"))
                              /\ Set(t, [loc[t] EXCEPT !.saw = "otp"])
                         ELSE IF o.view = "phone"
                         THEN /\ Jump(t, "sl_fill")
                              /\ Set(t, [loc[t] EXCEPT !.saw = "phone"])
                              /\ UNCHANGED rv
                         ELSE /\ Call(t, "dd", "sl_raise")
                              /\ Set(t, [loc[t] EXCEPT !.probe = p, !.saw = "other",
                                                       !.step = "login_unexpected_page"])
                              /\ UNCHANGED rv
    /\ UNCHANGED <<stateFile, launches, context, chat_ctx, chat_state, prev>>

\* await page.fill(PHONE_INPUT, phone_digits); wait for the button (timeout ignored)
sl_fill(t) ==
    /\ At(t, "sl_fill")
    /\ IF PageAlive(loc[t].page) /\ HasPhone(loc[t].page)
       THEN Jump(t, "sl_click") /\ Effect(t, "fill_phone") /\ UNCHANGED rv
       ELSE Ret(t, Exc("Error", "fill")) /\ UNCHANGED fx
    /\ UNCHANGED <<stateFile, launches, context, ctxs, pages, chat_ctx, chat_state,
                   loc, prev>>

\* await page.click(SUBMIT_BTN): a button that stays disabled times the click out
sl_click(t) ==
    /\ At(t, "sl_click")
    /\ LET p == loc[t].page
       IN IF ~PageAlive(p)
          THEN Ret(t, Exc("Error", "click")) /\ UNCHANGED <<pages, fx>>
          ELSE \E enabled \in BOOLEAN :
                 IF ~enabled
                 THEN Ret(t, Exc("PlaywrightTimeoutError", "click"))
                      /\ UNCHANGED <<pages, fx>>
                 ELSE \E v \in AfterPhoneSubmit :
                        /\ pages' = Show(p, v)
                        /\ Jump(t, "sl_wait")
                        /\ Effect(t, "click_submit")
                        /\ UNCHANGED rv
    /\ UNCHANGED <<stateFile, launches, context, ctxs, chat_ctx, chat_state, loc, prev>>

\* a wait for the code field that has no timeout
sl_waitMut(t) ==
    /\ At(t, "sl_wait")
    /\ PageAlive(loc[t].page) /\ HasOtp(loc[t].page)
    /\ Ret(t, Val("none"))
    /\ UNCHANGED <<stateFile, launches, context, ctxs, pages, chat_ctx, chat_state,
                   loc, fx, prev>>

\* await page.wait_for_selector(OTP_INPUT, timeout=60000)
sl_wait(t) ==
    /\ At(t, "sl_wait")
    /\ IF PageAlive(loc[t].page) /\ HasOtp(loc[t].page)
       THEN Ret(t, Val("none"))
       ELSE Ret(t, Exc("PlaywrightTimeoutError", "wait_otp"))
    /\ UNCHANGED <<stateFile, launches, context, ctxs, pages, chat_ctx, chat_state,
                   loc, fx, prev>>

\* after debug_dump(page, "login_unexpected_page"): raise RuntimeError(...)
sl_raise(t) ==
    /\ At(t, "sl_raise")
    /\ Ret(t, Exc("RuntimeError", "unexpected_page"))
    /\ UNCHANGED <<stateFile, launches, context, ctxs, pages, chat_ctx, chat_state,
                   loc, fx, prev>>

----------------------------------------------------------------------------
(* verify_otp(chat_id, code): entered at "eb" with "gp", "vo" below it *)

\* await page.wait_for_selector(OTP_INPUT, timeout=60000)
vo(t) ==
    /\ At(t, "vo")
    /\ IF Raised(t)
       THEN Pop(t) /\ UNCHANGED rv
       ELSE IF PageAlive(loc[t].page) /\ HasOtp(loc[t].page)
            THEN Jump(t, "vo_type") /\ UNCHANGED rv
            ELSE Ret(t, Exc("PlaywrightTimeoutError", "wait_otp"))
    /\ UNCHANGED <<stateFile, launches, context, ctxs, pages, chat_ctx, chat_state,
                   loc, fx, prev>>

\* await page.fill(OTP_INPUT, ""); await page.type(OTP_INPUT, code_digits, delay=120)
vo_type(t) ==
    /\ At(t, "vo_type")
    /\ IF PageAlive(loc[t].page) /\ HasOtp(loc[t].page)
       THEN Jump(t, "vo_submit") /\ Effect(t, "type_otp") /\ UNCHANGED rv
       ELSE Ret(t, Exc("Error", "type")) /\ UNCHANGED fx
    /\ UNCHANGED <<stateFile, launches, context, ctxs, pages, chat_ctx, chat_state,
                   loc, prev>>

\* wait for the button and click it, or press Enter when it never enables; then
\* wait for the code field to detach (timeout ignored).  The site accepts only
\* a six-digit code, and not every one.
vo_submit(t) ==
    /\ At(t, "vo_submit")
    /\ LET p == loc[t].page
       IN IF ~PageAlive(p)
          THEN Ret(t, Exc("Error", "submit")) /\ UNCHANGED <<pages, ctxs, loc, fx>>
          ELSE \E enabled \in BOOLEAN : \E accepted \in BOOLEAN :
                 /\ accepted => Len(loc[t].digits) = 6
                 /\ pages' = Show(p, IF accepted THEN "other" ELSE "otp")
                 /\ ctxs' = [ctxs EXCEPT ![pages[p].ctx].auth = @ \/ accepted]
                 /\ Effect(t, IF enabled THEN "click_submit" ELSE "press_enter")
                 /\ Set(t, [loc[t] EXCEPT !.probe = p])
                 /\ Call(t, "il", "vo_check")
                 /\ UNCHANGED rv
    /\ UNCHANGED <<stateFile, launches, context, chat_ctx, chat_state, prev>>

\* a login check whose exception is not caught
vo_checkMut(t) ==
    /\ At(t, "vo_check")
    /\ LET ok == ~Raised(t) /\ rv[t].v = "true"
       IN /\ Set(t, [loc[t] EXCEPT !.ok = ok, !.probe = 0])
          /\ IF ok
             THEN Call(t, "sv", "vo_ret") /\ UNCHANGED rv
             ELSE IF Raised(t)
                  THEN Pop(t) /\ UNCHANGED rv
                  ELSE Ret(t, Val("false"))
    /\ UNCHANGED <<stateFile, launches, context, ctxs, pages, chat_ctx, chat_state,
                   fx, prev>>

\* ok = await _is_logged_in(page)  (an exception leaves ok False);
\* if ok: await _save_state()
vo_check(t) ==
    /\ At(t, "vo_check")
    /\ LET ok == ~Raised(t) /\ rv[t].v = "true"
       IN /\ Set(t, [loc[t] EXCEPT !.ok = ok, !.probe = 0])
          /\ IF ok
             THEN Call(t, "sv", "vo_ret") /\ UNCHANGED rv
             ELSE Ret(t, Val("false"))
    /\ UNCHANGED <<stateFile, launches, context, ctxs, pages, chat_ctx, chat_state,
                   fx, prev>>

\* return ok
vo_ret(t) ==
    /\ At(t, "vo_ret")
    /\ Ret(t, Val(IF loc[t].ok THEN "true" ELSE "false"))
    /\ UNCHANGED <<stateFile, launches, context, ctxs, pages, chat_ctx, chat_state,
                   loc, fx, prev>>

----------------------------------------------------------------------------
(* logout(chat_id): entered at "eb" with "gp", "lo" below it *)

\* what /my-divar shows
MyDivarOutcomes(auth) == IF auth THEN {"other"} ELSE {"phone", "other"}

\* a logout that lets the error of _get_page through
loMut(t) ==
    /\ At(t, "lo")
    /\ LET p == loc[t].page
       IN IF Raised(t)
          THEN Pop(t) /\ UNCHANGED <<pages, fx, rv>>
          ELSE /\ \E nav \in BOOLEAN :
                    IF nav /\ PageAlive(p)
                    THEN \E v \in MyDivarOutcomes(AuthOf(p)) :
                           /\ pages' = Show(p, v)
                           /\ Jump(t, "lo_click")
                           /\ Effect(t, "goto")
                    ELSE Jump(t, "lo_click") /\ UNCHANGED <<pages, fx>>
               /\ rv' = [rv EXCEPT ![t] = NoRv]
    /\ UNCHANGED <<stateFile, launches, context, ctxs, chat_ctx, chat_state, loc, prev>>

\* try: page = await _get_page(chat_id); try: await page.goto(DIVAR_MYDIVAR_URL)
lo(t) ==
    /\ At(t, "lo")
    /\ LET p == loc[t].page
       IN IF Raised(t)
          THEN Jump(t, "lo_close") /\ UNCHANGED <<pages, fx>>
          ELSE \E nav \in BOOLEAN :
                 IF nav /\ PageAlive(p)
                 THEN \E v \in MyDivarOutcomes(AuthOf(p)) :
                        /\ pages' = Show(p, v)
                        /\ Jump(t, "lo_click")
                        /\ Effect(t, "goto")
                 ELSE Jump(t, "lo_click") /\ UNCHANGED <<pages, fx>>
    /\ rv' = [rv EXCEPT ![t] = NoRv]
    /\ UNCHANGED <<stateFile, launches, context, ctxs, chat_ctx, chat_state, loc, prev>>

\* try: if LOGOUT_BTN is there, click it (the site ends the session)
lo_click(t) ==
    /\ At(t, "lo_click")
    /\ LET p == loc[t].page
       IN IF PageAlive(p) /\ AuthOf(p)
          THEN \E clicked \in BOOLEAN :
                 IF clicked
                 THEN /\ ctxs' = [ctxs EXCEPT ![pages[p].ctx].auth = FALSE]
                      /\ Effect(t, "click_logout")
                 ELSE UNCHANGED <<ctxs, fx>>
          ELSE UNCHANGED <<ctxs, fx>>
    /\ Jump(t, "lo_storage")
    /\ UNCHANGED <<stateFile, launches, context, pages, chat_ctx, chat_state,
                   loc, rv, prev>>

\* try: localStorage.clear(); sessionStorage.clear()
lo_storage(t) ==
    /\ At(t, "lo_storage")
    /\ \E ok \in BOOLEAN :
         IF ok /\ PageAlive(loc[t].page)
         THEN Effect(t, "clear_storage")
         ELSE Effect(t, "clear_storage_failed")
    /\ Jump(t, "lo_cookies")
    /\ UNCHANGED <<stateFile, launches, context, ctxs, pages, chat_ctx, chat_state,
                   loc, rv, prev>>

\* try: if _context: await _context.clear_cookies()
lo_cookies(t) ==
    /\ At(t, "lo_cookies")
    /\ \E ok \in BOOLEAN :
         IF ok /\ context # 0 /\ CtxAlive(context)
         THEN /\ ctxs' = [ctxs EXCEPT ![context].auth = FALSE]
              /\ Effect(t, "clear_cookies")
         ELSE /\ UNCHANGED ctxs
              /\ Effect(t, "clear_cookies_failed")
    /\ Jump(t, "lo_close")
    /\ UNCHANGED <<stateFile, launches, context, pages, chat_ctx, chat_state,
                   loc, rv, prev>>

\* try: if _context: await _context.close()   (every page of it closes with it;
\* a close that raises does so because the browser behind it is gone, and the
\* context and its pages with it)
lo_close(t) ==
    /\ At(t, "lo_close")
    /\ IF context # 0 /\ CtxAlive(context)
       THEN /\ ctxs' = [ctxs EXCEPT ![context] = FreeCtx]
            /\ pages' = [p \in PageIds |->
                           IF pages[p].st = "open" /\ pages[p].ctx = context
                           THEN ClosedPage ELSE pages[p]]
            /\ \E ok \in BOOLEAN :
                 Effect(t, IF ok THEN "close_context" ELSE "close_context_failed")
       ELSE UNCHANGED <<ctxs, pages, fx>>
    /\ Jump(t, "lo_finish")
    /\ UNCHANGED <<stateFile, launches, context, chat_ctx, chat_state, loc, rv, prev>>

\* os.remove(DIVAR_STATE_PATH) inside try/except: a failure is only logged
RemoveOutcomes == BOOLEAN

\* _context = None; remove the state file; ctx["page"] = None; return True
lo_finish(t) ==
    /\ At(t, "lo_finish")
    /\ context' = 0
    /\ IF stateFile # "absent"
       THEN \E removed \in RemoveOutcomes :
              IF removed
              THEN stateFile' = "absent" /\ Effect(t, "remove_file")
              ELSE UNCHANGED stateFile /\ Effect(t, "remove_failed")
       ELSE UNCHANGED <<stateFile, fx>>
    /\ LET cc == [chat_ctx EXCEPT ![loc[t].chat] = 0]
           l2 == [loc EXCEPT ![t].page = 0]
       IN /\ chat_ctx' = cc
          /\ loc' = l2
          /\ pages' = Collect(pages, cc, l2)
    /\ Ret(t, Val("true"))
    /\ UNCHANGED <<launches, ctxs, chat_state, prev>>

----------------------------------------------------------------------------
(* _pick_category_from_list(page, category_index): entered at "pk" *)

\* category_index < 0 or category_index >= count
IndexRejectedMut(i, count) == i < 0
IndexRejected(i, count) == i < 0 \/ i >= count

\* await items.first.wait_for(timeout=60000); count = await items.count();
\* if count <= 0: raise; if the index is out of range: raise
pk(t) ==
    /\ At(t, "pk")
    /\ \E count \in 0 .. MaxCats : \E waited \in BOOLEAN :
         /\ Set(t, [loc[t] EXCEPT !.count = count])
         /\ IF ~PageAlive(loc[t].page) \/ (count = 0 /\ ~waited)
            THEN Ret(t, Exc("PlaywrightTimeoutError", "wait_category"))
            ELSE IF count <= 0
            THEN Ret(t, Exc("RuntimeError", "category_empty"))
            ELSE IF IndexRejected(loc[t].idx, count)
            THEN Ret(t, Exc("RuntimeError", "category_index"))
            ELSE Jump(t, "pk_click") /\ UNCHANGED rv
    /\ UNCHANGED <<stateFile, launches, context, ctxs, pages, chat_ctx, chat_state,
                   fx, prev>>

\* await items.nth(category_index).scroll_into_view_if_needed(); ...click()
pk_click(t) ==
    /\ At(t, "pk_click")
    /\ \E hit \in BOOLEAN :
         IF hit /\ PageAlive(loc[t].page) /\ loc[t].idx \in 0 .. (loc[t].count - 1)
         THEN /\ Set(t, [loc[t] EXCEPT !.clicked = loc[t].idx])
              /\ Effect(t, "click_category")
              /\ Ret(t, Val("none"))
         ELSE /\ Ret(t, Exc("PlaywrightTimeoutError", "click_category"))
              /\ UNCHANGED <<loc, fx>>
    /\ UNCHANGED <<stateFile, launches, context, ctxs, pages, chat_ctx, chat_state,
                   prev>>

----------------------------------------------------------------------------
(* create_post_on_divar(...): entered at "eb" with "gp", "cp" below it *)

\* step = <stage>: the locals after the assignment (stages keeps the history)
StepTo(l, step) ==
    IF l.step = step THEN l
    ELSE [l EXCEPT !.step = step, !.stages = Append(@, step)]

Stage(t, step) == Set(t, StepTo(loc[t], step))

\* the stage `step` raises e; except Exception as e:
\*     png, html = await debug_dump(page, step)
Fail(t, step, e) ==
    /\ Call(t, "dd", "cp_fail")
    /\ Set(t, [StepTo(loc[t], step) EXCEPT !.res = e, !.probe = loc[t].page])
    /\ UNCHANGED rv

\* page = await _get_page(chat_id); then has_valid_session() is awaited
cp(t) ==
    /\ At(t, "cp")
    /\ IF Raised(t)
       THEN Pop(t)
       ELSE Call(t, "hvs", "cp_open")
    /\ UNCHANGED <<stateFile, launches, context, ctxs, pages, chat_ctx, chat_state,
                   loc, rv, fx, prev>>

\* if not has_valid_session: raise RuntimeError (no stage yet);
\* step open_new: goto /new; step maybe_category_first: a category page that
\* shows first is picked from
cp_open(t) ==
    /\ At(t, "cp_open")
    /\ LET p == loc[t].page
       IN IF Raised(t)
          THEN Pop(t) /\ UNCHANGED <<rv, pages, ctxs, loc, fx>>
          ELSE IF rv[t].v # "true"
          THEN Ret(t, Exc("RuntimeError", "not_logged_in"))
               /\ UNCHANGED <<pages, ctxs, loc, fx>>
          ELSE IF ~PageAlive(p)
          THEN Fail(t, "open_new", Exc("Error", "goto")) /\ UNCHANGED <<pages, ctxs, fx>>
          ELSE \E nav \in BOOLEAN :
            /\ Effect(t, "goto")
            /\ IF ~nav
               THEN Fail(t, "open_new", Exc("Error", "goto")) /\ UNCHANGED <<pages, ctxs>>
               ELSE \E o \in GotoNewOutcomes(AuthOf(p)) : \E catsFirst \in BOOLEAN :
                      /\ pages' = Show(p, o.view)
                      /\ ctxs' = [ctxs EXCEPT ![pages[p].ctx].auth = o.auth]
                      /\ Set(t, StepTo(StepTo(loc[t], "open_new"), "maybe_category_first"))
                      /\ UNCHANGED rv
                      /\ IF catsFirst
                         THEN Call(t, "pk", "cp_upload")
                         ELSE Jump(t, "cp_upload")
    /\ UNCHANGED <<stateFile, launches, context, chat_ctx, chat_state, prev>>

\* not image_paths or len(image_paths) == 0
NoImagesMut(imgs) == FALSE
NoImages(imgs) == ~imgs

\* step upload_image: an empty list raises; wait for IMAGES_INPUT; set_input_files
cp_upload(t) ==
    /\ At(t, "cp_upload")
    /\ IF Raised(t)
       THEN Fail(t, loc[t].step, rv[t]) /\ UNCHANGED fx
       ELSE IF NoImages(loc[t].imgs)
       THEN Fail(t, "upload_image", Exc("RuntimeError", "no_images")) /\ UNCHANGED fx
       ELSE \E present \in BOOLEAN :
              IF present /\ PageAlive(loc[t].page)
              THEN /\ Stage(t, "upload_image")
                   /\ Jump(t, "cp_title")
                   /\ Effect(t, "upload")
                   /\ UNCHANGED rv
              ELSE /\ Fail(t, "upload_image", Exc("PlaywrightTimeoutError", "wait_images"))
                   /\ UNCHANGED fx
    /\ UNCHANGED <<stateFile, launches, context, ctxs, pages, chat_ctx, chat_state,
                   prev>>

\* step fill_title: wait for TITLE_INPUT; fill
cp_title(t) ==
    /\ At(t, "cp_title")
    /\ \E present \in BOOLEAN :
         IF present /\ PageAlive(loc[t].page)
         THEN /\ Stage(t, "fill_title")
              /\ Jump(t, "cp_desc")
              /\ Effect(t, "fill_title")
              /\ UNCHANGED rv
         ELSE /\ Fail(t, "fill_title", Exc("PlaywrightTimeoutError", "wait_title"))
              /\ UNCHANGED fx
    /\ UNCHANGED <<stateFile, launches, context, ctxs, pages, chat_ctx, chat_state,
                   prev>>

\* step fill_description: wait for DESC_INPUT; fill
cp_desc(t) ==
    /\ At(t, "cp_desc")
    /\ \E present \in BOOLEAN :
         IF present /\ PageAlive(loc[t].page)
         THEN /\ Stage(t, "fill_description")
              /\ Jump(t, "cp_next1")
              /\ Effect(t, "fill_description")
              /\ UNCHANGED rv
         ELSE /\ Fail(t, "fill_description", Exc("PlaywrightTimeoutError", "wait_desc"))
              /\ UNCHANGED fx
    /\ UNCHANGED <<stateFile, launches, context, ctxs, pages, chat_ctx, chat_state,
                   prev>>

\* what the wait after the first Next finds: a category list, a price field
\* or the #Category block without a list, or none of them within the timeout
AfterNext1 == {"list", "price", "none"}

\* step click_next_1: click Next; step wait_after_next_1: wait_for_function;
\* step pick_category_if_list: a list that shows is picked from
cp_next1(t) ==
    /\ At(t, "cp_next1")
    /\ \E clickable \in BOOLEAN : \E shape \in AfterNext1 :
         IF ~(clickable /\ PageAlive(loc[t].page))
         THEN /\ Fail(t, "click_next_1", Exc("PlaywrightTimeoutError", "click_next"))
              /\ UNCHANGED fx
         ELSE /\ Effect(t, "click_next_1")
              /\ IF shape = "none"
                 THEN /\ Call(t, "dd", "cp_fail")
                      /\ Set(t, [StepTo(StepTo(loc[t], "click_next_1"), "wait_after_next_1")
                                   EXCEPT !.res = Exc("RuntimeError", "no_expected_page"),
                                          !.probe = loc[t].page])
                      /\ UNCHANGED rv
                 ELSE /\ Set(t, StepTo(StepTo(StepTo(loc[t], "click_next_1"),
                                             "wait_after_next_1"), "pick_category_if_list"))
                      /\ UNCHANGED rv
                      /\ IF shape = "list"
                         THEN Call(t, "pk", "cp_price")
                         ELSE Jump(t, "cp_price")
    /\ UNCHANGED <<stateFile, launches, context, ctxs, pages, chat_ctx, chat_state,
                   prev>>

\* a location check that never finds the control unset
LocationUnsetMut(shown) == FALSE

\* page.locator(LOCATION_DETERMINE_BTN).count() > 0
LocationUnset(shown) == shown

\* step fill_price: wait for PRICE_INPUT, type the price; step location_check
cp_price(t) ==
    /\ At(t, "cp_price")
    /\ IF Raised(t)
       THEN Fail(t, loc[t].step, rv[t]) /\ UNCHANGED fx
       ELSE \E present \in BOOLEAN : \E shown \in BOOLEAN :
              IF ~(present /\ PageAlive(loc[t].page))
              THEN /\ Fail(t, "fill_price", Exc("PlaywrightTimeoutError", "wait_price"))
                   /\ UNCHANGED fx
              ELSE /\ Effect(t, "fill_price")
                   /\ IF LocationUnset(shown)
                      THEN /\ Call(t, "dd", "cp_fail")
                           /\ Set(t, [StepTo(StepTo(loc[t], "fill_price"), "location_check")
                                        EXCEPT !.res = Exc("RuntimeError", "location_unset"),
                                               !.probe = loc[t].page,
                                               !.unset = shown])
                           /\ UNCHANGED rv
                      ELSE /\ Set(t, [StepTo(StepTo(loc[t], "fill_price"),
                                             "location_check") EXCEPT !.unset = shown])
                           /\ Jump(t, "cp_next2")
                           /\ UNCHANGED rv
    /\ UNCHANGED <<stateFile, launches, context, ctxs, pages, chat_ctx, chat_state,
                   prev>>

\* step click_next_2: click Next
cp_next2(t) ==
    /\ At(t, "cp_next2")
    /\ \E clickable \in BOOLEAN :
         IF clickable /\ PageAlive(loc[t].page)
         THEN /\ Stage(t, "click_next_2")
              /\ Jump(t, "cp_final")
              /\ Effect(t, "click_next_2")
              /\ UNCHANGED rv
         ELSE /\ Fail(t, "click_next_2", Exc("PlaywrightTimeoutError", "click_next"))
              /\ UNCHANGED fx
    /\ UNCHANGED <<stateFile, launches, context, ctxs, pages, chat_ctx, chat_state,
                   prev>>

\* step final_submit: click FINAL_SUBMIT, or else the last submit button; then
\* await _save_state()
cp_final(t) ==
    /\ At(t, "cp_final")
    /\ \E clickable \in BOOLEAN :
         IF clickable /\ PageAlive(loc[t].page)
         THEN /\ Stage(t, "final_submit")
              /\ Call(t, "sv", "cp_done")
              /\ Effect(t, "click_final")
              /\ UNCHANGED rv
         ELSE /\ Fail(t, "final_submit", Exc("PlaywrightTimeoutError", "click_final"))
              /\ UNCHANGED fx
    /\ UNCHANGED <<stateFile, launches, context, ctxs, pages, chat_ctx, chat_state,
                   prev>>

\* return the success string
cp_done(t) ==
    /\ At(t, "cp_done")
    /\ Ret(t, Val("success"))
    /\ UNCHANGED <<stateFile, launches, context, ctxs, pages, chat_ctx, chat_state,
                   loc, fx, prev>>

\* an except clause that lets the caught exception through as it is
cp_failMut(t) ==
    /\ At(t, "cp_fail")
    /\ Ret(t, loc[t].res)
    /\ UNCHANGED <<stateFile, launches, context, ctxs, pages, chat_ctx, chat_state,
                   loc, fx, prev>>

\* raise RuntimeError("... stage: {step} error: {e} Debug PNG: {png} Debug HTML: {html}")
cp_fail(t) ==
    /\ At(t, "cp_fail")
    /\ Ret(t, [k |-> "exc", v |-> "RuntimeError", msg |-> loc[t].res.msg,
               stage |-> loc[t].step, dump |-> rv[t].dump])
    /\ UNCHANGED <<stateFile, launches, context, ctxs, pages, chat_ctx, chat_state,
                   loc, fx, prev>>

----------------------------------------------------------------------------
(* Invocations.  The bot handles one update at a time (python-telegram-bot *)
(* awaits each handler before it takes the next update), so an operation   *)
(* starts only when none is in flight.                                     *)

Serial(t) == t = 1 /\ \A u \in Tasks : Idle(u)

Enter(t, via, op, c, stack, digits, idx, imgs, r) ==
    /\ pc' = [pc EXCEPT ![t] = stack]
    /\ loc' = [loc EXCEPT ![t] = [NoLoc EXCEPT !.op = op, !.via = via, !.chat = c,
                                     !.digits = digits, !.idx = idx, !.imgs = imgs]]
    /\ rv' = [rv EXCEPT ![t] = r]
    /\ fx' = [fx EXCEPT ![t] = {}]
    /\ prev' = IF op = "has_valid_session" /\ via = "api" THEN prev ELSE NoPrev
    /\ UNCHANGED <<stateFile, launches, context, ctxs, pages, chat_ctx>>

Begin(t, via, op, c, stack, digits, idx, imgs) ==
    Enter(t, via, op, c, stack, digits, idx, imgs, NoRv)

\* phone_digits = _normalize_digits(phone), a leading 98 rewritten to 0
PhoneDigits(text) == RewritePrefix(_normalize_digits(text))

\* code_digits = _normalize_digits(code)[:6]
CodeDigits(text) == FirstSix(_normalize_digits(text))

CallHasValidSession(t) ==
    /\ Serial(t)
    /\ Begin(t, "api", "has_valid_session", 0, <<"hvs", "caller">>, <<>>, 0, FALSE)
    /\ UNCHANGED chat_state

CallStartLogin(t, c, phone) ==
    /\ Serial(t)
    /\ Begin(t, "api", "start_login", c, <<"eb", "gp", "sl", "caller">>,
             PhoneDigits(phone), 0, FALSE)
    /\ UNCHANGED chat_state

CallVerifyOtp(t, c, code) ==
    /\ Serial(t)
    /\ Begin(t, "api", "verify_otp", c, <<"eb", "gp", "vo", "caller">>,
             CodeDigits(code), 0, FALSE)
    /\ UNCHANGED chat_state

CallLogout(t, c) ==
    /\ Serial(t)
    /\ Begin(t, "api", "logout", c, <<"eb", "gp", "lo", "caller">>, <<>>, 0, FALSE)
    /\ UNCHANGED chat_state

CallCreatePost(t, c, idx, imgs) ==
    /\ Serial(t)
    /\ Begin(t, "api", "create_post_on_divar", c, <<"eb", "gp", "cp", "caller">>,
             <<>>, idx, imgs)
    /\ UNCHANGED chat_state

----------------------------------------------------------------------------
(* bot.py: /login and the text handler *)

\* cmd_login: st = _get_state(chat_id); if await has_valid_session(): ...
cmd_login(t, c) ==
    /\ Serial(t)
    /\ Begin(t, "cmd_login", "has_valid_session", c, <<"hvs", "cmd_login_step", "caller">>,
             <<>>, 0, FALSE)
    /\ UNCHANGED chat_state

\* ... st["step"] = None; return / st["step"] = "phone"
cmd_login_step(t) ==
    /\ At(t, "cmd_login_step")
    /\ IF Raised(t)
       THEN Pop(t) /\ UNCHANGED <<rv, chat_state>>
       ELSE /\ chat_state' = [chat_state EXCEPT ![loc[t].chat] =
                                IF rv[t].v = "true" THEN "none" ELSE "phone"]
            /\ Ret(t, Val("replied"))
    /\ Set(t, [loc[t] EXCEPT !.out = rv[t]])
    /\ UNCHANGED <<stateFile, launches, context, ctxs, pages, chat_ctx, fx, prev>>

\* handle_text: the step of the chat decides what the text is taken for
handle_text(t, c, text) ==
    /\ Serial(t)
    /\ UNCHANGED chat_state
    /\ LET phone == RewritePrefix(_normalize_digits(text))
           code == FirstSix(_normalize_digits(text))
       IN IF chat_state[c] = "phone"
          THEN IF PhoneInvalid(phone)
               THEN Enter(t, "handle_text", "none", c, <<"caller">>, phone, 0, FALSE,
                          Val("invalid_phone"))
               ELSE Begin(t, "handle_text", "start_login", c,
                          <<"eb", "gp", "sl", "handle_text_phone", "caller">>,
                          PhoneDigits(phone), 0, FALSE)
          ELSE IF chat_state[c] = "otp"
          THEN IF CodeInvalid(code)
               THEN Enter(t, "handle_text", "none", c, <<"caller">>, code, 0, FALSE,
                          Val("invalid_code"))
               ELSE Begin(t, "handle_text", "verify_otp", c,
                          <<"eb", "gp", "vo", "handle_text_otp", "caller">>,
                          CodeDigits(code), 0, FALSE)
          ELSE Enter(t, "handle_text", "none", c, <<"caller">>, <<>>, 0, FALSE,
                     Val("use_commands"))

\* try: await start_login(chat_id, phone); st["step"] = "otp"
\* except Exception: st["step"] = None
handle_text_phone(t) ==
    /\ At(t, "handle_text_phone")
    /\ chat_state' = [chat_state EXCEPT ![loc[t].chat] =
                        IF Raised(t) THEN "none" ELSE "otp"]
    /\ Ret(t, Val(IF Raised(t) THEN "login_error" ELSE "ask_code"))
    /\ Set(t, [loc[t] EXCEPT !.out = rv[t]])
    /\ UNCHANGED <<stateFile, launches, context, ctxs, pages, chat_ctx, fx, prev>>

\* an except clause that reports the error and leaves the step as it was
handle_text_otpMut(t) ==
    /\ At(t, "handle_text_otp")
    /\ chat_state' = [chat_state EXCEPT ![loc[t].chat] =
                        IF Raised(t) THEN @ ELSE "none"]
    /\ Ret(t, Val(IF Raised(t) THEN "verify_error" ELSE "replied"))
    /\ Set(t, [loc[t] EXCEPT !.out = rv[t]])
    /\ UNCHANGED <<stateFile, launches, context, ctxs, pages, chat_ctx, fx, prev>>

\* try: ok = await verify_otp(chat_id, code); st["step"] = None
\* except Exception: st["step"] = None
handle_text_otp(t) ==
    /\ At(t, "handle_text_otp")
    /\ chat_state' = [chat_state EXCEPT ![loc[t].chat] = "none"]
    /\ Ret(t, Val(IF Raised(t) THEN "verify_error" ELSE "replied"))
    /\ Set(t, [loc[t] EXCEPT !.out = rv[t]])
    /\ UNCHANGED <<stateFile, launches, context, ctxs, pages, chat_ctx, fx, prev>>

----------------------------------------------------------------------------
(* The caller takes the result; the task is idle again. *)

\* what the called operation of divar_automation.py handed back
ApiResult(t) == IF loc[t].via = "api" THEN rv[t] ELSE loc[t].out

Returns(t) ==
    /\ At(t, "caller")
    /\ pc' = [pc EXCEPT ![t] = <<>>]
    /\ prev' = [op |-> loc[t].op,
                v |-> IF ApiResult(t).k = "exc" THEN "exc" ELSE ApiResult(t).v,
                saved |-> "save" \in fx[t]]
    /\ loc' = [loc EXCEPT ![t] = NoLoc]
    /\ rv' = [rv EXCEPT ![t] = NoRv]
    /\ fx' = [fx EXCEPT ![t] = {}]
    /\ pages' = Collect(pages, chat_ctx, [loc EXCEPT ![t] = NoLoc])
    /\ UNCHANGED <<stateFile, launches, context, ctxs, chat_ctx, chat_state>>

----------------------------------------------------------------------------
Idxs == -1 .. MaxCats

Next ==
    \E t \in Tasks :
        \/ CallHasValidSession(t)
        \/ \E c \in Chats : \E ph \in PhoneTexts : CallStartLogin(t, c, ph)
        \/ \E c \in Chats : \E cd \in CodeTexts : CallVerifyOtp(t, c, cd)
        \/ \E c \in Chats : CallLogout(t, c)
        \/ \E c \in Chats : \E i \in Idxs : \E im \in BOOLEAN : CallCreatePost(t, c, i, im)
        \/ eb(t) \/ eb_launch(t) \/ eb_ctx(t) \/ eb_cookie(t)
        \/ gp(t) \/ gp_new(t)
        \/ sv(t) \/ sv_write(t)
        \/ dd(t)
        \/ il(t) \/ il_probe(t)
        \/ hvs(t) \/ hvs_page(t) \/ hvs_close(t)
        \/ sl(t) \/ sl_fill(t) \/ sl_click(t) \/ sl_wait(t) \/ sl_raise(t)
        \/ vo(t) \/ vo_type(t) \/ vo_submit(t) \/ vo_check(t) \/ vo_ret(t)
        \/ lo(t) \/ lo_click(t) \/ lo_storage(t) \/ lo_cookies(t) \/ lo_close(t)
        \/ lo_finish(t)
        \/ pk(t) \/ pk_click(t)
        \/ cp(t) \/ cp_open(t) \/ cp_upload(t) \/ cp_title(t) \/ cp_desc(t)
        \/ cp_next1(t) \/ cp_price(t) \/ cp_next2(t) \/ cp_final(t) \/ cp_done(t)
        \/ cp_fail(t)
        \/ Returns(t)

\* divar_automation.py called directly, one call at a time
Spec == Init /\ [][Next]_vars

\* the steps of a call that is in flight, up to handing its result back
Steps(t) ==
    \/ eb(t) \/ eb_launch(t) \/ eb_ctx(t) \/ eb_cookie(t)
    \/ gp(t) \/ gp_new(t)
    \/ sv(t) \/ sv_write(t)
    \/ dd(t)
    \/ il(t) \/ il_probe(t)
    \/ hvs(t) \/ hvs_page(t) \/ hvs_close(t)
    \/ sl(t) \/ sl_fill(t) \/ sl_click(t) \/ sl_wait(t) \/ sl_raise(t)
    \/ vo(t) \/ vo_type(t) \/ vo_submit(t) \/ vo_check(t) \/ vo_ret(t)
    \/ lo(t) \/ lo_click(t) \/ lo_storage(t) \/ lo_cookies(t) \/ lo_close(t)
    \/ lo_finish(t)
    \/ pk(t) \/ pk_click(t)
    \/ cp(t) \/ cp_open(t) \/ cp_upload(t) \/ cp_title(t) \/ cp_desc(t)
    \/ cp_next1(t) \/ cp_price(t) \/ cp_next2(t) \/ cp_final(t) \/ cp_done(t)
    \/ cp_fail(t)

\* The event loop resumes a coroutine once what it awaits has completed, and
\* every browser call the code awaits completes or times out: a call in flight
\* keeps taking its steps.
SpecLive == Init /\ [][Next]_vars /\ \A t \in Tasks : WF_vars(Steps(t))

\* Every operation opens with page = await _get_page(chat_id).  The
\* operations are coroutines: a caller that does not await one call before it
\* starts the next (asyncio.gather, an Application built with
\* concurrent_updates) has two of them in flight, switching at every await.
ConcGetPage(t, c) ==
    /\ Idle(t)
    /\ Begin(t, "api", "_get_page", c, <<"eb", "gp", "caller">>, <<>>, 0, FALSE)
    /\ UNCHANGED chat_state

NextConc ==
    \E t \in Tasks :
        \/ \E c \in Chats : ConcGetPage(t, c)
        \/ eb(t) \/ eb_launch(t) \/ eb_ctx(t) \/ eb_cookie(t)
        \/ gp(t) \/ gp_new(t)
        \/ Returns(t)

SpecConc == Init /\ [][NextConc]_vars

\* A caller that logs chat 1 in (task 1, one call after the other) and calls
\* logout (task 2) while a verify_otp is in flight, the two switching at every
\* await; the next login call waits for that logout.
RacePhone == <<"0","9","3","5","1","2","3","4","5","6","7">>
RaceCode == <<"1","2","3","4","5","6">>

RaceStartLogin(t) ==
    /\ t = 1 /\ \A u \in Tasks : Idle(u)
    /\ Begin(t, "api", "start_login", 1, <<"eb", "gp", "sl", "caller">>,
             PhoneDigits(RacePhone), 0, FALSE)
    /\ UNCHANGED chat_state

RaceVerifyOtp(t) ==
    /\ t = 1 /\ \A u \in Tasks : Idle(u)
    /\ Begin(t, "api", "verify_otp", 1, <<"eb", "gp", "vo", "caller">>,
             CodeDigits(RaceCode), 0, FALSE)
    /\ UNCHANGED chat_state

RaceLogout(t) ==
    /\ t = 2 /\ Idle(t)
    /\ loc[1].op = "verify_otp" /\ ~At(1, "caller")
    /\ Begin(t, "api", "logout", 1, <<"eb", "gp", "lo", "caller">>, <<>>, 0, FALSE)
    /\ UNCHANGED chat_state

NextRace ==
    \E t \in Tasks :
        \/ RaceStartLogin(t) \/ RaceVerifyOtp(t) \/ RaceLogout(t)
        \/ eb(t) \/ eb_launch(t) \/ eb_ctx(t) \/ eb_cookie(t)
        \/ gp(t) \/ gp_new(t)
        \/ sv(t) \/ sv_write(t)
        \/ dd(t)
        \/ il(t) \/ il_probe(t)
        \/ sl(t) \/ sl_fill(t) \/ sl_click(t) \/ sl_wait(t) \/ sl_raise(t)
        \/ vo(t) \/ vo_type(t) \/ vo_submit(t) \/ vo_check(t) \/ vo_ret(t)
        \/ lo(t) \/ lo_click(t) \/ lo_storage(t) \/ lo_cookies(t) \/ lo_close(t)
        \/ lo_finish(t)
        \/ Returns(t)

SpecRace == Init /\ [][NextRace]_vars

\* bot.py on top of the login operations: /login, text messages, /logout, and
\* the same login operations called directly
NextBot ==
    \E t \in Tasks :
        \/ \E c \in Chats : cmd_login(t, c)
        \/ \E c \in Chats : \E tx \in PhoneTexts \cup CodeTexts : handle_text(t, c, tx)
        \/ \E c \in Chats : \E ph \in PhoneTexts : CallStartLogin(t, c, ph)
        \/ \E c \in Chats : \E cd \in CodeTexts : CallVerifyOtp(t, c, cd)
        \/ \E c \in Chats : CallLogout(t, c)
        \/ eb(t) \/ eb_launch(t) \/ eb_ctx(t) \/ eb_cookie(t)
        \/ gp(t) \/ gp_new(t)
        \/ sv(t) \/ sv_write(t)
        \/ dd(t)
        \/ il(t) \/ il_probe(t)
        \/ hvs(t) \/ hvs_page(t) \/ hvs_close(t)
        \/ sl(t) \/ sl_fill(t) \/ sl_click(t) \/ sl_wait(t) \/ sl_raise(t)
        \/ vo(t) \/ vo_type(t) \/ vo_submit(t) \/ vo_check(t) \/ vo_ret(t)
        \/ lo(t) \/ lo_click(t) \/ lo_storage(t) \/ lo_cookies(t) \/ lo_close(t)
        \/ lo_finish(t)
        \/ cmd_login_step(t) \/ handle_text_phone(t) \/ handle_text_otp(t)
        \/ Returns(t)

SpecBot == Init /\ [][NextBot]_vars

----------------------------------------------------------------------------
(* Properties.  Back(t, op): the operation op, called directly, has just   *)
(* handed its result to the caller.                                        *)

Back(t, op) == At(t, "caller") /\ loc[t].op = op /\ loc[t].via = "api"

BrowserEffects == {"pw_start", "launch", "new_context", "new_page", "goto",
                   "close_page"}

\* C1: whenever the state file is absent or at most 10 bytes, the step that
\* has_valid_session takes returns false and changes nothing of the browser:
\* no engine start, no context, no page, no navigation -- wherever it is
\* called from and whatever ran before.
C1_NoStateNoBrowser ==
    [][\A t \in Tasks :
         (At(t, "hvs") /\ stateFile # "valid" /\ pc'[t] # pc[t]) =>
            /\ pc'[t] = Tail(pc[t])
            /\ rv'[t] = Val("false")
            /\ fx'[t] \cap BrowserEffects = fx[t] \cap BrowserEffects
            /\ UNCHANGED browserVars]_vars

C1_Witness ==
    \E t \in Tasks :
        /\ Back(t, "has_valid_session")
        /\ stateFile = "tiny"
        /\ context # 0
        /\ rv[t] = Val("false")
        /\ fx[t] = {}

\* C2 as stated: after any verify_otp that returns true the state file exists
\* with non-trivial size, and an immediately following has_valid_session that
\* is shown no login prompt returns true.
C2_Original ==
    \A t \in Tasks :
        /\ (Back(t, "verify_otp") /\ rv[t] = Val("true")) => stateFile = "valid"
        /\ ( /\ Back(t, "has_valid_session")
             /\ prev.op = "verify_otp" /\ prev.v = "true"
             /\ loc[t].saw = "other" ) => rv[t] = Val("true")

\* C2 amended: after a verify_otp that returns true and whose state write did
\* not fail, the state file exists with non-trivial size, and an immediately
\* following has_valid_session that is shown no login prompt returns true.
C2_SavedLogin ==
    \A t \in Tasks :
        /\ (Back(t, "verify_otp") /\ rv[t] = Val("true") /\ "save_failed" \notin fx[t])
              => stateFile = "valid"
        /\ ( /\ Back(t, "has_valid_session")
             /\ prev.op = "verify_otp" /\ prev.v = "true" /\ prev.saved
             /\ loc[t].saw = "other" ) => rv[t] = Val("true")

C2_Witness ==
    \E t \in Tasks :
        /\ Back(t, "has_valid_session")
        /\ prev.op = "verify_otp" /\ prev.v = "true" /\ prev.saved
        /\ loc[t].saw = "other"
        /\ rv[t] = Val("true")

\* C3 as stated: after logout completes the state file does not exist and the
\* next has_valid_session returns false.
C3_LogoutRemovesState ==
    \A t \in Tasks :
        /\ Back(t, "logout") => stateFile = "absent"
        /\ (Back(t, "has_valid_session") /\ prev.op = "logout") => rv[t] = Val("false")

\* C4: when the final login probe of verify_otp sees a phone or code field, or
\* fails, verify_otp returns false and does not write the state file; with no
\* usable state file a following has_valid_session returns false.
C4_FailedVerify ==
    \A t \in Tasks :
        /\ (Back(t, "verify_otp") /\ loc[t].saw \in {"phone", "otp", "failed"})
              => /\ rv[t] = Val("false")
                 /\ fx[t] \cap {"save", "save_failed"} = {}
        /\ ( /\ Back(t, "has_valid_session")
             /\ prev.op = "verify_otp" /\ prev.v = "false"
             /\ stateFile # "valid" ) => rv[t] = Val("false")

C4_Witness ==
    \E t \in Tasks :
        /\ Back(t, "has_valid_session")
        /\ prev.op = "verify_otp" /\ prev.v = "false" /\ ~prev.saved
        /\ stateFile = "absent"
        /\ rv[t] = Val("false")

\* an 11-digit number starting with 09; six digits
IsMobile(d) == Len(d) = 11 /\ d[1] = "0" /\ d[2] = "9"
IsCode(d) == Len(d) = 6

Interactions == {"goto", "fill_phone", "click_submit", "type_otp", "press_enter"}

\* C5 as stated: start_login called with a phone text whose digits are not an
\* 11-digit number starting with 09 fails and performs no navigation and no
\* other browser interaction.
C5_Original ==
    \A t \in Tasks :
        (Back(t, "start_login") /\ ~IsMobile(loc[t].digits))
            => (Raised(t) /\ fx[t] = {})

\* C5 amended: the text handler of the bot rejects such a phone text with the
\* invalid-number reply before start_login is called: nothing of the browser
\* is touched and the chat keeps waiting for a phone number; start_login only
\* ever runs for the handler with an 11-digit number starting with 09.
C5_HandlerRejectsPhone ==
    \A t \in Tasks :
        /\ (loc[t].via = "handle_text" /\ loc[t].op = "start_login")
              => IsMobile(loc[t].digits)
        /\ (loc[t].via = "handle_text" /\ rv[t] = Val("invalid_phone"))
              => /\ ~IsMobile(loc[t].digits)
                 /\ fx[t] = {}
                 /\ chat_state[loc[t].chat] = "phone"

C5_Witness ==
    \E t \in Tasks :
        /\ At(t, "caller")
        /\ loc[t].via = "handle_text"
        /\ rv[t] = Val("invalid_phone")
        /\ loc[t].digits = <<"0", "9", "3", "5", "1", "2", "3">>
        /\ context # 0

\* C6 as stated: verify_otp called with a code text of fewer than 6 digits
\* fails without typing the code and without clicking submit or pressing Enter.
C6_Original ==
    \A t \in Tasks :
        (Back(t, "verify_otp") /\ Len(loc[t].digits) < 6)
            => (Raised(t) /\ fx[t] \cap {"type_otp", "click_submit", "press_enter"} = {})

\* C6 amended: the text handler of the bot rejects a code text of fewer than 6
\* digits with the six-digits reply before verify_otp is called: nothing is
\* typed, clicked or pressed and the chat keeps waiting for a code; verify_otp
\* only ever runs for the handler with exactly six digits.
C6_HandlerRejectsCode ==
    \A t \in Tasks :
        /\ (loc[t].via = "handle_text" /\ loc[t].op = "verify_otp")
              => IsCode(loc[t].digits)
        /\ (loc[t].via = "handle_text" /\ rv[t] = Val("invalid_code"))
              => /\ Len(loc[t].digits) < 6
                 /\ fx[t] = {}
                 /\ chat_state[loc[t].chat] = "otp"

C6_Witness ==
    \E t \in Tasks :
        /\ At(t, "caller")
        /\ loc[t].via = "handle_text"
        /\ rv[t] = Val("invalid_code")
        /\ loc[t].digits = <<"1", "2", "3", "4", "5">>
        /\ \E p \in PageIds : PageAlive(p) /\ HasOtp(p)

\* the stages of create_post_on_divar in the order the code enters them
StageOrder ==
    << "open_new", "maybe_category_first", "upload_image", "fill_title",
       "fill_description", "click_next_1", "wait_after_next_1",
       "pick_category_if_list", "fill_price", "location_check", "click_next_2",
       "final_submit" >>

Range(f) == {f[i] : i \in DOMAIN f}
IsPrefix(a, b) == Len(a) <= Len(b) /\ a = SubSeq(b, 1, Len(a))

\* C7 as stated: create_post_on_divar with an empty or missing image list
\* fails tagged stage upload_image after debug_dump ran for that stage,
\* whatever page the site shows (here: once /new has opened).
C7_Original ==
    \A t \in Tasks :
        ( /\ Back(t, "create_post_on_divar") /\ ~loc[t].imgs
          /\ "maybe_category_first" \in Range(loc[t].stages) )
            => (Raised(t) /\ rv[t].stage = "upload_image" /\ "dump" \in fx[t])

\* C7 amended: create_post_on_divar with an empty or missing image list
\* always fails and never uploads or enters a later stage; when the run gets
\* as far as stage upload_image (logged in, /new opened, a category page shown
\* first picked from) the failure is tagged upload_image, names the missing
\* images and debug_dump ran before it was raised.
C7_NoImagesFailsAtUpload ==
    \A t \in Tasks :
        (Back(t, "create_post_on_divar") /\ ~loc[t].imgs)
            => /\ Raised(t)
               /\ "upload" \notin fx[t]
               /\ IsPrefix(loc[t].stages, SubSeq(StageOrder, 1, 3))
               /\ "upload_image" \in Range(loc[t].stages)
                     => /\ rv[t].stage = "upload_image"
                        /\ rv[t].msg = "no_images"
                        /\ "dump" \in fx[t]

C7_Witness ==
    \E t \in Tasks :
        /\ Back(t, "create_post_on_divar")
        /\ ~loc[t].imgs
        /\ rv[t].stage = "upload_image"
        /\ rv[t].dump = "paths"
        /\ loc[t].clicked = loc[t].idx

\* C8 as stated: in every run a category_index that is negative or not below
\* the live category count is rejected, nothing is clicked and the run never
\* reaches the final submission.
C8_Original ==
    \A t \in Tasks :
        ( /\ loc[t].op = "create_post_on_divar"
          /\ (loc[t].idx < 0 \/ (loc[t].count # -1 /\ loc[t].idx >= loc[t].count)) )
            => /\ "click_final" \notin fx[t]
               /\ Back(t, "create_post_on_divar") => Raised(t)

\* C8 amended: whenever the site shows a category list (at /new or after the
\* first Next), a category_index that is negative or not below the live count
\* is rejected: the click is not reached, the run fails in that stage and
\* never reaches the final submission; an item that is clicked is the one at
\* category_index, never a clamped one.  Without a list the index is not
\* looked at.
C8_PickerBounds ==
    \A t \in Tasks :
        /\ At(t, "pk_click") => (0 <= loc[t].idx /\ loc[t].idx < loc[t].count)
        /\ loc[t].clicked # -1 => loc[t].clicked = loc[t].idx
        /\ (loc[t].count # -1 /\ (loc[t].idx < 0 \/ loc[t].idx >= loc[t].count))
              => /\ "click_final" \notin fx[t]
                 /\ ~At(t, "pk_click")
                 /\ Back(t, "create_post_on_divar")
                       => /\ Raised(t)
                          /\ rv[t].stage \in {"maybe_category_first",
                                              "pick_category_if_list"}

C8_Witness ==
    \E t \in Tasks :
        /\ Back(t, "create_post_on_divar")
        /\ loc[t].count = MaxCats
        /\ loc[t].idx = MaxCats
        /\ rv[t].msg = "category_index"
        /\ rv[t].stage = "pick_category_if_list"

Success(t) ==
    /\ rv[t] = Val("success")
    /\ loc[t].stages = StageOrder
    /\ {"goto", "upload", "fill_title", "fill_description", "click_next_1",
        "fill_price", "click_next_2", "click_final"} \subseteq fx[t]

----------------------------------------------------------------------------
\* C11: whatever ran before -- a logout for another chat that closed the
\* shared context included -- the step on which _get_page returns hands back
\* a page that is open at that moment.
C11_ReturnsOpenPage ==
    [][\A t \in Tasks :
          (/\ At(t, "gp") \/ At(t, "gp_new")
           /\ pc'[t] = Tail(pc[t])
           /\ rv'[t] = Val("page"))
              => /\ loc'[t].page \in PageIds
                 /\ pages'[loc'[t].page].st = "open"
                 /\ chat_ctx'[loc[t].chat] = loc'[t].page]_vars

\* _get_page has just replaced the page another chat's logout closed
C11_Witness ==
    \E t \in Tasks :
        /\ At(t, "sl")
        /\ rv[t] = Val("page")
        /\ "replace_closed" \in fx[t]
        /\ pages[loc[t].page].st = "open"
        /\ stateFile = "absent"

\* the open pages _get_page made for chat c
OpenPagesOf(c) == {p \in PageIds : pages[p].st = "open" /\ pages[p].owner = c}

\* C12: in every reachable state, states reached by interleaving two
\* operations for the same chat at their awaits included, at most one open
\* page exists that _get_page created for a given chat.
C12_OnePagePerUser ==
    \A c \in Chats : Cardinality(OpenPagesOf(c)) <= 1

\* C13: over any sequence of operations, logout followed by more operations
\* included, Chromium is launched at most once: _ensure_browser with a browser
\* of an earlier launch still running starts no second one.
C13_LaunchedOnce == launches <= 1

\* C14: chats are isolated from each other: no step of an operation run for
\* chat a closes the open page of another chat b or turns b's page from not
\* authenticated to authenticated (a successful verify_otp for a does not log
\* b in, logout(a) does not close b's page).
C14_Isolated ==
    [][\A t \in Tasks : \A b \in Chats :
          (/\ pc'[t] # pc[t]
           /\ loc[t].chat \in Chats \ {b}
           /\ PageAlive(chat_ctx[b]))
              => /\ chat_ctx'[b] = chat_ctx[b]
                 /\ pages'[chat_ctx[b]].st = "open"
                 /\ ctxs'[pages'[chat_ctx[b]].ctx].auth => AuthOf(chat_ctx[b])]_vars

\* C15 as stated: verify_otp that got its page never raises, whatever the site
\* shows: code rejected, submit never enabled, code field never detached, code
\* field not on the page.
C15_Original ==
    \A t \in Tasks :
        (Back(t, "verify_otp") /\ loc[t].page # 0) => ~Raised(t)

\* C15 amended: once verify_otp has typed the code it never raises: whether
\* the submit button enabled or Enter was pressed, whether the site took the
\* code or not and whether the login check itself failed, it returns a
\* boolean, and false whenever the check did not see a logged-in page.  It
\* raises only before typing: the timeout of the wait for the code field when
\* the field is not on the page, or a failure to get the page.
C15_NoRaiseOnceTyped ==
    \A t \in Tasks :
        Back(t, "verify_otp")
            => /\ "type_otp" \in fx[t]
                    => /\ rv[t] \in {Val("true"), Val("false")}
                       /\ fx[t] \cap {"click_submit", "press_enter"} # {}
                       /\ loc[t].saw \in {"failed", "phone", "otp"}
                             => rv[t] = Val("false")
               /\ Raised(t)
                    => /\ "type_otp" \notin fx[t]
                       /\ rv[t].msg \in {"wait_otp", "launch"}
                       /\ rv[t].msg = "wait_otp" => rv[t].v = "PlaywrightTimeoutError"

\* the button never enabled, Enter was pressed, the site kept the code field
C15_Witness ==
    \E t \in Tasks :
        /\ Back(t, "verify_otp")
        /\ rv[t] = Val("false")
        /\ "press_enter" \in fx[t]
        /\ loc[t].saw = "otp"

\* C16: logout never raises and returns true, whichever of its sub-steps fail:
\* getting the page, the navigation, the click, clearing the storages,
\* clearing the cookies, closing the context, deleting the state file.
C16_LogoutReturnsTrue ==
    \A t \in Tasks :
        /\ Back(t, "logout") => rv[t] = Val("true")
        /\ (loc[t].op = "logout" /\ pc[t] # <<>>
              /\ Head(pc[t]) \in {"lo_click", "lo_storage", "lo_cookies", "lo_close",
                                   "lo_finish"})
             => ~Raised(t)

\* storage clearing, cookie clearing, the context close and the file removal
\* all failed
C16_Witness ==
    \E t \in Tasks :
        /\ Back(t, "logout")
        /\ rv[t] = Val("true")
        /\ {"clear_storage_failed", "clear_cookies_failed", "close_context_failed",
            "remove_failed"} \subseteq fx[t]
        /\ stateFile = "valid"

\* C17: a failed write of the state file never becomes an exception or a
\* changed result: _save_state comes back without raising, verify_otp still
\* returns true after the confirmed login and create_post_on_divar still
\* returns the success string after the final submission.
C17_WriteFailureHarmless ==
    \A t \in Tasks :
        /\ (At(t, "vo_ret") \/ At(t, "cp_done")) => rv[t] = Val("none")
        /\ (Back(t, "verify_otp") /\ "save_failed" \in fx[t])
              => rv[t] = Val("true") /\ loc[t].ok
        /\ (Back(t, "create_post_on_divar") /\ "save_failed" \in fx[t])
              => rv[t] = Val("success") /\ "click_final" \in fx[t]

\* the listing was submitted, the write failed, the success string came back
C17_Witness ==
    \E t \in Tasks :
        /\ Back(t, "create_post_on_divar")
        /\ "save_failed" \in fx[t]
        /\ rv[t] = Val("success")
        /\ loc[t].stages = StageOrder

\* the state file is written or removed on this step
Written(t) == "save" \in fx'[t] \ fx[t]
Removed(t) == "remove_file" \in fx'[t] \ fx[t]

\* C18: the state file is written only by _save_state, called as the step
\* right after the confirmed login of verify_otp or right after the final
\* submission of create_post_on_divar, and removed only by logout.
\* has_valid_session, start_login, debug_dump and every failing run of
\* verify_otp and create_post_on_divar leave it as it was.
C18_WriteDiscipline ==
    [][/\ stateFile' # stateFile => \E t \in Tasks : Written(t) \/ Removed(t)
       /\ \A t \in Tasks :
            /\ Written(t)
                 => /\ stateFile' = "valid"
                    /\ \/ /\ loc[t].op = "verify_otp"
                          /\ pc[t] = <<"sv_write", "vo_ret", "caller">>
                          /\ loc[t].ok
                          /\ loc[t].saw = "other"
                       \/ /\ loc[t].op = "create_post_on_divar"
                          /\ pc[t] = <<"sv_write", "cp_done", "caller">>
                          /\ "click_final" \in fx[t]
                          /\ loc[t].stages = StageOrder
            /\ Removed(t)
                 => /\ stateFile' = "absent"
                    /\ loc[t].op = "logout"
                    /\ At(t, "lo_finish")
            /\ (Written(t) \/ Removed(t))
                 => \A u \in Tasks \ {t} : fx'[u] = fx[u]]_vars

\* a listing was submitted and the state file written after it
C18_Witness ==
    \E t \in Tasks :
        /\ Back(t, "create_post_on_divar")
        /\ "save" \in fx[t]
        /\ "click_final" \in fx[t]
        /\ stateFile = "valid"

\* C19: every failure start_login or verify_otp raises over what the page
\* shows (unexpected page, code field never appearing after the phone number was
\* submitted, code field missing at verification) is raised after debug_dump
\* was invoked for it, and names the stage and what the dump returned.
C19_LoginFailuresDumped ==
    \A t \in Tasks :
        ((Back(t, "start_login") \/ Back(t, "verify_otp"))
            /\ Raised(t) /\ rv[t].msg \in {"unexpected_page", "wait_otp"})
          => /\ "dump" \in fx[t]
             /\ rv[t].stage # ""
             /\ rv[t].dump \in {"paths", "none"}

\* C20: debug_dump never raises: its caller always gets a pair back, the two
\* paths or (None, None) when the screenshot, the markup read or the write
\* failed; and a create_post_on_divar run whose dump failed still raises the
\* RuntimeError that names its stage and carries the text of the error that
\* made the stage fail.
C20_DumpNeverRaises ==
    \A t \in Tasks :
        /\ (At(t, "cp_fail") \/ At(t, "sl_raise"))
              => /\ rv[t].k = "ret"
                 /\ rv[t].dump \in {"paths", "none"}
                 /\ "dump" \in fx[t]
        /\ (Back(t, "create_post_on_divar") /\ rv[t].dump = "none")
              => /\ rv[t].k = "exc"
                 /\ rv[t].v = "RuntimeError"
                 /\ loc[t].stages # <<>>
                 /\ rv[t].stage = loc[t].stages[Len(loc[t].stages)]
                 /\ loc[t].res.k = "exc"
                 /\ rv[t].msg = loc[t].res.msg

\* the title field never showed, the dump failed too, the failure still names
\* its stage and the wait's error
C20_Witness ==
    \E t \in Tasks :
        /\ Back(t, "create_post_on_divar")
        /\ rv[t].dump = "none"
        /\ rv[t].stage = "fill_title"
        /\ rv[t].msg = "wait_title"

----------------------------------------------------------------------------
\* a bot handler is back with its reply
Handled(t, op) == At(t, "caller") /\ loc[t].via = "handle_text" /\ loc[t].op = op

\* C21: the step of a chat is None after every verify_otp the text handler
\* made, whether it returned true, returned false or raised, and a /login
\* that then finds no valid session sets the step to phone; a text that is
\* not a six-digit code leaves the step at otp and verify_otp is not called.
C21_StepResetAfterVerify ==
    \A t \in Tasks :
        /\ Handled(t, "verify_otp")
              => /\ chat_state[loc[t].chat] = "none"
                 /\ loc[t].out.k = "exc" \/ loc[t].out.v \in {"true", "false"}
        /\ (Handled(t, "none") /\ rv[t] = Val("invalid_code"))
              => /\ chat_state[loc[t].chat] = "otp"
                 /\ fx[t] = {}
        /\ (At(t, "caller") /\ loc[t].via = "cmd_login" /\ loc[t].out = Val("false"))
              => chat_state[loc[t].chat] = "phone"

\* verify_otp raised in the handler and the step is None all the same
C21_Witness ==
    \E t \in Tasks :
        /\ Handled(t, "verify_otp")
        /\ loc[t].out.k = "exc"
        /\ chat_state[loc[t].chat] = "none"

\* C22: the step of a chat becomes otp only from phone, on the return of a
\* start_login that did not raise, and at that moment the chat's page is open
\* and shows the one-time-code field.
C22_OtpStepHasCodeField ==
    [][\A c \in Chats :
          (chat_state'[c] = "otp" /\ chat_state[c] # "otp")
              => /\ chat_state[c] = "phone"
                 /\ \E t \in Tasks :
                      /\ At(t, "handle_text_phone")
                      /\ loc[t].chat = c
                      /\ loc[t].op = "start_login"
                      /\ ~Raised(t)
                 /\ PageAlive(chat_ctx[c])
                 /\ HasOtp(chat_ctx[c])]_vars

\* C23: when the entry route shows the listing form with no phone field, or
\* shows the one-time-code field, start_login returns normally having only
\* navigated: the phone field is not filled, submit is not clicked, no code is
\* requested, the state file is not written -- each time it is called.
C23_AdvancedStatesIdempotent ==
    \A t \in Tasks :
        (Back(t, "start_login") /\ loc[t].saw \in {"form", "otp"})
            => /\ rv[t] = Val("none")
               /\ "goto" \in fx[t]
               /\ fx[t] \cap {"fill_phone", "click_submit", "save", "save_failed",
                              "dump", "remove_file"} = {}
               /\ pages[loc[t].page].view = IF loc[t].saw = "otp" THEN "otp" ELSE "other"

\* start_login found the code field already there, on a page that was already
\* showing it before the call
C23_Witness ==
    \E t \in Tasks :
        /\ Back(t, "start_login")
        /\ loc[t].saw = "otp"
        /\ "new_page" \notin fx[t]
        /\ rv[t] = Val("none")

\* C24: in a run of create_post_on_divar where the location control is still
\* unset at the location check, the second Next click, the final-submit click
\* and the state save never happen, and the run fails with a failure tagged
\* location_check.
C24_LocationUnsetStops ==
    \A t \in Tasks :
        loc[t].unset
            => /\ loc[t].op = "create_post_on_divar"
               /\ fx[t] \cap {"click_next_2", "click_final", "save", "save_failed"} = {}
               /\ "fill_price" \in fx[t]
               /\ Head(pc[t]) \in {"dd", "cp_fail", "caller"}
               /\ At(t, "caller")
                    => /\ Raised(t)
                       /\ rv[t].v = "RuntimeError"
                       /\ rv[t].stage = "location_check"
                       /\ rv[t].msg = "location_unset"
                       /\ "dump" \in fx[t]

\* the price was typed, the location control was unset, the run failed there
C24_Witness ==
    \E t \in Tasks :
        /\ Back(t, "create_post_on_divar")
        /\ loc[t].unset
        /\ rv[t].stage = "location_check"
        /\ rv[t].dump = "paths"

\* the scratch pages that are open
OpenScratch == {p \in PageIds : pages[p].st = "open" /\ pages[p].kind = "scratch"}

\* C25: a scratch page is open only while the has_valid_session that opened
\* it is still running: by the time has_valid_session returns -- the probe
\* having found a session, found none, or failed to navigate -- its scratch
\* page is closed, and after any sequence of calls none is open.
C25_ScratchPagesClosed ==
    /\ \A p \in OpenScratch :
          \E t \in Tasks : loc[t].scratch = p /\ "hvs_close" \in Range(pc[t])
    /\ \A t \in Tasks :
          "hvs_close" \notin Range(pc[t]) => loc[t].scratch = 0
    /\ (\A t \in Tasks : Idle(t) \/ At(t, "caller")) => OpenScratch = {}

\* the probe's navigation failed and the scratch page was closed all the same
C25_Witness ==
    \E t \in Tasks :
        /\ Back(t, "has_valid_session")
        /\ loc[t].saw = "failed"
        /\ rv[t] = Val("false")
        /\ "close_page" \in fx[t]
        /\ OpenScratch = {}

\* C26: every call of has_valid_session, start_login, verify_otp,
\* create_post_on_divar and logout that is in flight eventually hands a result
\* or an exception back to its caller, whatever the page does, every browser
\* wait being satisfied or timing out.
C26_EveryCallEnds ==
    \A t \in Tasks : (pc[t] # <<>>) ~> At(t, "caller")

\* after the first Next none of the expected pages ever loaded: the wait timed
\* out and the run came back with its failure
C26_Witness ==
    \E t \in Tasks :
        /\ Back(t, "create_post_on_divar")
        /\ rv[t].msg = "no_expected_page"
        /\ "click_next_1" \in fx[t]

\* the contexts that are open in some browser
OpenContexts == {c \in CtxIds : ctxs[c].st = "open"}

\* C27: when calls for two different chats are in flight together, both having
\* reached _ensure_browser before a context existed, one browser and one
\* context are created, and every open page belongs to the context _context
\* refers to.
C27_OneBrowserOneContext ==
    \A t, u \in Tasks :
        (~Idle(t) /\ ~Idle(u) /\ loc[t].chat # loc[u].chat)
            => /\ launches <= 1
               /\ Cardinality(OpenContexts) <= 1
               /\ \A p \in PageIds : pages[p].st = "open" => pages[p].ctx = context

\* C28: once logout has completed, a verify_otp or create_post_on_divar that
\* was already in flight when logout ran does not come back with a success
\* result (true, the success string).
C28_NoSuccessAcrossLogout ==
    [][\A t \in Tasks :
          (/\ prev.op = "logout"
           /\ loc[t].op \in {"verify_otp", "create_post_on_divar"}
           /\ pc[t] # <<>> /\ ~At(t, "caller")
           /\ pc'[t] = <<"caller">>)
              => rv'[t] \notin {Val("true"), Val("success")}]_vars

====
